---- MODULE Spec2Model ----
(***************************************************************************)
(* A model of src/components/victory-chart/helper-methods.js: the helpers   *)
(* VictoryChart uses to select its children, to merge their domains, to    *)
(* build the string map of a categorical axis, to resolve ticks and tick   *)
(* formats, to collect bar categories and to place the axes.               *)
(*                                                                         *)
(* Every helper is a synchronous function of its arguments.  Each one is   *)
(* modelled by a specification of its own (SpecChildren, SpecCategories,   *)
(* SpecDomain, SpecStrings, SpecTicks, SpecOffset) whose initial states    *)
(* enumerate the arguments and whose actions are the steps of the call.    *)
(* The variables of the other helpers stay at their idle values.           *)
(***************************************************************************)
EXTENDS Integers, Sequences, FiniteSets, TLC

VARIABLES
    pc,               \* where the running helper is
    \* getChildComponents
    props,            \* props.children: whether it is there, and the children
    i,                \* the position of React.Children.forEach
    counts,           \* the counts object
    childComponents,  \* the childComponents array, the result at "done"
    warnings,         \* the messages handed to Log.warn
    \* getCategories
    groupedArgs,      \* the childComponents argument
    groupedIdx,       \* the position of the reduce over groupedComponents
    allCategories,    \* the accumulator of the reduce
    categoriesResult, \* what getCategories returns
    \* getDomain
    domainArgs,       \* props.domain, the children's reported domains, axis
    domainIdx,        \* the position of the reduce over childComponents
    childDomains,     \* the accumulator of the reduce
    domain,           \* the domain handed to Domain.padDomain
    \* createStringMap
    stringArgs,       \* what the Data collaborators find: ticks, categories, data
    allStrings,       \* uniq([...tickStrings, ...categoryStrings, ...dataStrings])
    stringMap,        \* what createStringMap returns
    \* getTicks, getTickFormat
    tickArgs,         \* component.props.tickValues, calculatedProps
    ticks,            \* what getTicks returns
    tickFormat,       \* what getTickFormat returns
    \* getAxisOffset
    offsetArgs,       \* props, calculatedProps
    origin,           \* the origin object
    offset            \* what getAxisOffset returns

childVars == <<props, i, counts, childComponents, warnings>>
categoryVars == <<groupedArgs, groupedIdx, allCategories, categoriesResult>>
domainVars == <<domainArgs, domainIdx, childDomains, domain>>
stringVars == <<stringArgs, allStrings, stringMap>>
tickVars == <<tickArgs, ticks, tickFormat>>
offsetVars == <<offsetArgs, origin, offset>>

vars == <<pc, childVars, categoryVars, domainVars, stringVars, tickVars, offsetVars>>

\* the variables of a helper that is not running
IdleChildren ==
    /\ props = [hasChildren |-> FALSE, children |-> <<>>]
    /\ i = 0
    /\ counts = <<>>
    /\ childComponents = <<>>
    /\ warnings = <<>>

IdleCategories ==
    /\ groupedArgs = <<>>
    /\ groupedIdx = 0
    /\ allCategories = <<>>
    /\ categoriesResult = <<>>

IdleDomain ==
    /\ domainArgs = <<>>
    /\ domainIdx = 0
    /\ childDomains = <<>>
    /\ domain = <<>>

IdleStrings ==
    /\ stringArgs = <<>>
    /\ allStrings = <<>>
    /\ stringMap = <<>>

IdleTicks ==
    /\ tickArgs = <<>>
    /\ ticks = <<>>
    /\ tickFormat = <<>>

IdleOffset ==
    /\ offsetArgs = <<>>
    /\ origin = <<>>
    /\ offset = <<>>

----------------------------------------------------------------------------
(* Bounds of the model. *)

\* the longest list of declared children
MaxChildren == 4

----------------------------------------------------------------------------
(* Small helpers on sequences. *)

Range(s) == {s[k] : k \in DOMAIN s}

SeqsUpTo(S, n) == UNION {[1..k -> S] : k \in 0..n}

----------------------------------------------------------------------------
(* Children.  A child is what React.Children.forEach hands to the callback: *)
(* `typed` is whether child and child.type are truthy, `role` is           *)
(* child.type.role ("none" when the type carries no role), `axis` is what  *)
(* Axis.getAxisType(child) answers ("none" for undefined), `id` is the     *)
(* position of the child in the declaration (0 for a default axis).        *)

AxisKeys == {"independent", "dependent"}

ChildKinds ==
    { [typed |-> FALSE, role |-> "none", axis |-> "none"],
      [typed |-> TRUE,  role |-> "none", axis |-> "none"],
      [typed |-> TRUE,  role |-> "axis", axis |-> "independent"],
      [typed |-> TRUE,  role |-> "axis", axis |-> "dependent"],
      [typed |-> TRUE,  role |-> "bar",  axis |-> "none"],
      [typed |-> TRUE,  role |-> "line", axis |-> "none"] }

MkChild(kind, id) ==
    [id |-> id, typed |-> kind.typed, role |-> kind.role, axis |-> kind.axis]

\* the declared children: each kind at each position
ChildLists ==
    { [k \in DOMAIN ks |-> MkChild(ks[k], k)] : ks \in SeqsUpTo(ChildKinds, MaxChildren) }

defaultAxes ==
    [independent |-> [id |-> 0, typed |-> TRUE, role |-> "axis", axis |-> "independent"],
     dependent   |-> [id |-> 0, typed |-> TRUE, role |-> "axis", axis |-> "dependent"]]

----------------------------------------------------------------------------
(* getChildComponents: the counts object and the closures over it. *)

\* the keys counts is indexed by: a role, or "undefined" for a missing role
CountKeys == {"axis", "bar", "line", "undefined"}

\* const type = child.type && child.type.role, as a key of counts
typeOf(child) == IF child.role = "none" THEN "undefined" ELSE child.role

Unset == [kind |-> "unset", n |-> 0, independent |-> 0, dependent |-> 0]
NumCount(n) == [kind |-> "num", n |-> n, independent |-> 0, dependent |-> 0]
AxisCount(ind, dep) == [kind |-> "obj", n |-> 0, independent |-> ind, dependent |-> dep]

\* !counts[type]: undefined and 0 are falsy, an object is truthy
Falsy(c) == c.kind = "unset" \/ (c.kind = "num" /\ c.n = 0)

addChild(cs, child) ==
    LET type == typeOf(child)
        axis == child.axis
        c0   == IF Falsy(cs[type])
                THEN (IF axis # "none" THEN AxisCount(0, 0) ELSE NumCount(0))
                ELSE cs[type]
    IN  IF axis # "none"
        THEN [cs EXCEPT ![type] = [c0 EXCEPT ![axis] = @ + 1]]
        ELSE [cs EXCEPT ![type] = [c0 EXCEPT !.n = @ + 1]]

limitReachedNoBarLimit(cs, child) ==
    LET type == typeOf(child)
        axis == child.axis
    IN  IF Falsy(cs[type]) THEN FALSE
        ELSE IF axis # "none" THEN cs[type][axis] >= 1
        ELSE FALSE

limitReachedOffByOne(cs, child) ==
    LET type == typeOf(child)
        axis == child.axis
    IN  IF Falsy(cs[type]) THEN FALSE
        ELSE IF axis # "none" THEN cs[type][axis] > 1
        ELSE IF type = "bar" THEN cs[type].n >= 1
        ELSE FALSE

limitReached(cs, child) ==
    LET type == typeOf(child)
        axis == child.axis
    IN  IF Falsy(cs[type]) THEN FALSE
        ELSE IF axis # "none" THEN cs[type][axis] >= 1
        ELSE IF type = "bar" THEN cs[type].n >= 1
        ELSE FALSE

\* total(type, axis), for the two calls the code makes: total("axis", axis)
total(cs, type, axis) ==
    IF ~Falsy(cs[type]) THEN cs[type][axis] ELSE 0

skippedWhenNoRole(child) == ~child.typed \/ child.role = "none"

\* if (!child || !child.type) { return; }
skipped(child) == ~child.typed

\* the message handed to Log.warn: the axis text, or the one-per-chart text
warningFor(child) ==
    IF typeOf(child) = "axis" THEN "OnlyOneAxisOfEachType" ELSE "OnlyOneComponentPerChart"

----------------------------------------------------------------------------
(* getChildComponents, step by step. *)

InitChildren ==
    /\ pc = "call"
    /\ props \in [hasChildren : {FALSE}, children : {<<>>}]
                 \cup [hasChildren : {TRUE}, children : ChildLists]
    /\ i = 1
    /\ counts = [k \in CountKeys |-> Unset]
    /\ childComponents = <<>>
    /\ warnings = <<>>
    /\ IdleCategories /\ IdleDomain /\ IdleStrings /\ IdleTicks /\ IdleOffset

\* if (!props.children) return [defaultAxes.independent, defaultAxes.dependent]
ReturnDefaults ==
    /\ pc = "call"
    /\ ~props.hasChildren
    /\ childComponents' = <<defaultAxes.independent, defaultAxes.dependent>>
    /\ pc' = "done"
    /\ UNCHANGED <<props, i, counts, warnings, categoryVars, domainVars, stringVars, tickVars, offsetVars>>

BeginForEach ==
    /\ pc = "call"
    /\ props.hasChildren
    /\ pc' = "forEach"
    /\ UNCHANGED <<childVars, categoryVars, domainVars, stringVars, tickVars, offsetVars>>

\* the callback on a child the first line returns on
SkipChild ==
    /\ pc = "forEach"
    /\ i <= Len(props.children)
    /\ skipped(props.children[i])
    /\ i' = i + 1
    /\ UNCHANGED <<pc, props, counts, childComponents, warnings, categoryVars, domainVars, stringVars, tickVars, offsetVars>>

\* the callback on a child whose limit is reached: warn, count, do not push
RejectChild ==
    /\ pc = "forEach"
    /\ i <= Len(props.children)
    /\ ~skipped(props.children[i])
    /\ limitReached(counts, props.children[i])
    /\ warnings' = Append(warnings, warningFor(props.children[i]))
    /\ counts' = addChild(counts, props.children[i])
    /\ i' = i + 1
    /\ UNCHANGED <<pc, props, childComponents, categoryVars, domainVars, stringVars, tickVars, offsetVars>>

\* the callback on any other child: push, count
AcceptChild ==
    /\ pc = "forEach"
    /\ i <= Len(props.children)
    /\ ~skipped(props.children[i])
    /\ ~limitReached(counts, props.children[i])
    /\ childComponents' = Append(childComponents, props.children[i])
    /\ counts' = addChild(counts, props.children[i])
    /\ i' = i + 1
    /\ UNCHANGED <<pc, props, warnings, categoryVars, domainVars, stringVars, tickVars, offsetVars>>

\* after the loop: push the default axes that are missing, return
AddDefaultAxes ==
    /\ pc = "forEach"
    /\ i > Len(props.children)
    /\ LET withInd == IF total(counts, "axis", "independent") < 1
                      THEN Append(childComponents, defaultAxes.independent)
                      ELSE childComponents
       IN  childComponents' = IF total(counts, "axis", "dependent") < 1
                              THEN Append(withInd, defaultAxes.dependent)
                              ELSE withInd
    /\ pc' = "done"
    /\ UNCHANGED <<props, i, counts, warnings, categoryVars, domainVars, stringVars, tickVars, offsetVars>>

NextChildren ==
    \/ ReturnDefaults
    \/ BeginForEach
    \/ SkipChild
    \/ RejectChild
    \/ AcceptChild
    \/ AddDefaultAxes

SpecChildren == InitChildren /\ [][NextChildren]_vars

----------------------------------------------------------------------------
(* getDataComponents and getCategories.  A child carries its role and its  *)
(* props.categories: undefined, a number, an array of numbers, or an array *)
(* of arrays of numbers.                                                   *)

\* the longest list of children handed to getCategories
MaxGrouped == 2
\* the longest categories array
MaxCategories == 2

CategoryPositions == {2, 6}
\* the inner arrays of an array of arrays; their means are whole numbers
InnerArrays == {<<1, 3>>, <<5, 7>>, <<2>>}

NoCategories == [kind |-> "undefined", num |-> 0, flat |-> <<>>, nested |-> <<>>]

CategoryProps ==
    {NoCategories}
    \cup [kind : {"number"}, num : {0, 2}, flat : {<<>>}, nested : {<<>>}]
    \cup [kind : {"array"}, num : {0}, flat : SeqsUpTo(CategoryPositions, MaxCategories),
          nested : {<<>>}]
    \cup [kind : {"arrays"}, num : {0}, flat : {<<>>},
          nested : SeqsUpTo(InnerArrays, MaxCategories) \ {<<>>}]

GroupedChildren == [role : {"bar", "line"}, categories : CategoryProps]

\* getDataComponents(childComponents, type): the predicate table
rolePredicate(type, role) ==
    CASE type = "all"     -> role # "axis"
      [] type = "data"    -> role # "axis" /\ role # "bar"
      [] type = "grouped" -> role = "bar"

RECURSIVE getDataComponents(_, _)
getDataComponents(children, type) ==
    IF children = <<>> THEN <<>>
    ELSE (IF rolePredicate(type, Head(children).role) THEN <<Head(children)>> ELSE <<>>)
         \o getDataComponents(Tail(children), type)

RECURSIVE sum(_)
sum(arr) == IF arr = <<>> THEN 0 ELSE Head(arr) + sum(Tail(arr))

\* cats.map((arr) => (sum(arr) / arr.length))
means(cats) == [k \in DOMAIN cats |-> sum(cats[k]) \div Len(cats[k])]

\* Collection.isArrayOfArrays(cats)
isArrayOfArrays(cats) == cats.kind = "arrays"

\* const categories = cats && isArrayOfArrays(cats) ? cats.map(...) : cats
categoriesOf(cats) ==
    IF cats.kind = "arrays"
    THEN [kind |-> "array", num |-> 0, flat |-> means(cats.nested), nested |-> <<>>]
    ELSE cats

\* the truthiness of categories: undefined and 0 are falsy, any array is truthy
truthy(categories) ==
    /\ categories.kind # "undefined"
    /\ ~(categories.kind = "number" /\ categories.num = 0)

\* prev.indexOf(categories): prev holds numbers, and indexOf compares with ===.
\* A number is found where it stands; an array is an object, which === finds
\* equal to no number, whatever the array holds.
indexOf(prev, categories) ==
    IF categories.kind = "number" /\ \E k \in DOMAIN prev : prev[k] = categories.num
    THEN (CHOOSE k \in DOMAIN prev :
             /\ prev[k] = categories.num
             /\ \A m \in 1..(k - 1) : prev[m] # categories.num) - 1
    ELSE -1

\* prev.concat(categories): an array is spread, a number is appended
concat(prev, categories) ==
    IF categories.kind = "number" THEN Append(prev, categories.num)
    ELSE prev \o categories.flat

\* the reducer of getCategories
reduceCategories(prev, component) ==
    LET categories == categoriesOf(component.categories)
    IN  IF truthy(categories) /\ indexOf(prev, categories) = -1
        THEN concat(prev, categories)
        ELSE prev

Undefined == [defined |-> FALSE, list |-> <<>>]
Defined(list) == [defined |-> TRUE, list |-> list]

InitCategories ==
    /\ pc = "call"
    /\ groupedArgs \in SeqsUpTo(GroupedChildren, MaxGrouped)
    /\ groupedIdx = 1
    /\ allCategories = <<>>
    /\ categoriesResult = Undefined
    /\ IdleChildren /\ IdleDomain /\ IdleStrings /\ IdleTicks /\ IdleOffset

\* if (groupedComponents.length === 0) return undefined
CategoriesNoGrouped ==
    /\ pc = "call"
    /\ getDataComponents(groupedArgs, "grouped") = <<>>
    /\ categoriesResult' = Undefined
    /\ pc' = "done"
    /\ UNCHANGED <<groupedArgs, groupedIdx, allCategories>>
    /\ UNCHANGED <<childVars, domainVars, stringVars, tickVars, offsetVars>>

\* one call of the reducer
CategoriesReduce ==
    /\ pc = "call"
    /\ LET groupedComponents == getDataComponents(groupedArgs, "grouped")
       IN  /\ groupedComponents # <<>>
           /\ groupedIdx <= Len(groupedComponents)
           /\ allCategories' = reduceCategories(allCategories, groupedComponents[groupedIdx])
    /\ groupedIdx' = groupedIdx + 1
    /\ UNCHANGED <<pc, groupedArgs, categoriesResult>>
    /\ UNCHANGED <<childVars, domainVars, stringVars, tickVars, offsetVars>>

\* return allCategories.length === 0 ? undefined : allCategories
CategoriesReturn ==
    /\ pc = "call"
    /\ LET groupedComponents == getDataComponents(groupedArgs, "grouped")
       IN  /\ groupedComponents # <<>>
           /\ groupedIdx > Len(groupedComponents)
    /\ categoriesResult' = IF Len(allCategories) = 0 THEN Undefined
                           ELSE Defined(allCategories)
    /\ pc' = "done"
    /\ UNCHANGED <<groupedArgs, groupedIdx, allCategories>>
    /\ UNCHANGED <<childVars, domainVars, stringVars, tickVars, offsetVars>>

NextCategories ==
    \/ CategoriesNoGrouped
    \/ CategoriesReduce
    \/ CategoriesReturn

SpecCategories == InitCategories /\ [][NextCategories]_vars

----------------------------------------------------------------------------
(* getDomain.  props.domain is undefined, one pair shared by the axes, or  *)
(* an object with a pair for some of the axes; each child answers          *)
(* component.type.getDomain(component.props, axis) with undefined or a     *)
(* pair.  The model follows the call up to the domain it hands to          *)
(* Domain.padDomain; padding and orientation are done by Domain and Axis.  *)

\* the longest list of children handed to getDomain
MaxDomainChildren == 2

DomainAxes == {"x", "y"}
DomainCoords == {-1, 2, 5, 8}

NoPair == [has |-> FALSE, pair |-> <<>>]
SomePair(p) == [has |-> TRUE, pair |-> p]

\* what a child reports: undefined, or two endpoints in either order
ChildReports == {NoPair} \cup {SomePair(<<a, b>>) : a, b \in DomainCoords}

DomainOverrides ==
    [kind : {"undefined"}, pair : {<<>>}, x : {NoPair}, y : {NoPair}]
    \cup [kind : {"array"}, pair : {<<0, 10>>}, x : {NoPair}, y : {NoPair}]
    \cup [kind : {"object"}, pair : {<<>>},
          x : {NoPair, SomePair(<<0, 10>>)}, y : {NoPair, SomePair(<<-3, 3>>)}]

\* props.domain && (Array.isArray(props.domain) || props.domain[axis])
hasOverride(d, axis) ==
    d.kind # "undefined" /\ (d.kind = "array" \/ d[axis].has)

\* Array.isArray(props.domain) ? props.domain : props.domain[axis]
overrideOf(d, axis) == IF d.kind = "array" THEN d.pair ELSE d[axis].pair

domainReducerKeepLast(prev, childDomain) ==
    IF childDomain.has THEN childDomain.pair ELSE prev

\* childDomain ? prev.concat(childDomain) : prev
domainReducer(prev, childDomain) ==
    IF childDomain.has THEN prev \o childDomain.pair ELSE prev

RECURSIVE MathMin(_)
\* Math.min(...xs), xs not empty
MathMin(xs) ==
    IF Len(xs) = 1 THEN xs[1]
    ELSE LET m == MathMin(Tail(xs)) IN IF Head(xs) < m THEN Head(xs) ELSE m

RECURSIVE MathMax(_)
\* Math.max(...xs), xs not empty
MathMax(xs) ==
    IF Len(xs) = 1 THEN xs[1]
    ELSE LET m == MathMax(Tail(xs)) IN IF Head(xs) > m THEN Head(xs) ELSE m

InitDomain ==
    /\ pc = "call"
    /\ domainArgs \in [domain : DomainOverrides,
                       children : SeqsUpTo(ChildReports, MaxDomainChildren),
                       axis : DomainAxes]
    /\ domainIdx = 1
    /\ childDomains = <<>>
    /\ domain = <<>>
    /\ IdleChildren /\ IdleCategories /\ IdleStrings /\ IdleTicks /\ IdleOffset

\* the override branch
DomainFromProps ==
    /\ pc = "call"
    /\ hasOverride(domainArgs.domain, domainArgs.axis)
    /\ domain' = overrideOf(domainArgs.domain, domainArgs.axis)
    /\ pc' = "padDomain"
    /\ UNCHANGED <<domainArgs, domainIdx, childDomains>>
    /\ UNCHANGED <<childVars, categoryVars, stringVars, tickVars, offsetVars>>

\* one call of the reducer over childComponents
DomainReduce ==
    /\ pc = "call"
    /\ ~hasOverride(domainArgs.domain, domainArgs.axis)
    /\ domainIdx <= Len(domainArgs.children)
    /\ childDomains' = domainReducer(childDomains, domainArgs.children[domainIdx])
    /\ domainIdx' = domainIdx + 1
    /\ UNCHANGED <<pc, domainArgs, domain>>
    /\ UNCHANGED <<childVars, categoryVars, stringVars, tickVars, offsetVars>>

\* domain = childDomains.length === 0 ? [0, 1] : [min, max]
DomainFromChildren ==
    /\ pc = "call"
    /\ ~hasOverride(domainArgs.domain, domainArgs.axis)
    /\ domainIdx > Len(domainArgs.children)
    /\ domain' = IF Len(childDomains) = 0 THEN <<0, 1>>
                 ELSE <<MathMin(childDomains), MathMax(childDomains)>>
    /\ pc' = "padDomain"
    /\ UNCHANGED <<domainArgs, domainIdx, childDomains>>
    /\ UNCHANGED <<childVars, categoryVars, stringVars, tickVars, offsetVars>>

NextDomain ==
    \/ DomainFromProps
    \/ DomainReduce
    \/ DomainFromChildren

SpecDomain == InitDomain /\ [][NextDomain]_vars

----------------------------------------------------------------------------
(* createStringMap.  The strings come from three collaborators:            *)
(* Data.getStringsFromAxes on the axis component (an array),               *)
(* Data.getStringsFromCategories and Data.getStringsFromData on each child *)
(* (an array, or undefined).  A string map is a JavaScript object: its     *)
(* entries in insertion order, each a key and a code.  The strings of the  *)
(* model are not integer-like, so the keys enumerate in insertion order.   *)

\* the longest list of children handed to createStringMap
MaxStringChildren == 1
\* the longest array of strings a collaborator answers
MaxStrings == 1

\* the strings of the tick labels, categories and data
Strings == {"a", "b", "c"}
\* the strings the collaborators of createStringMap answer with
FoundStrings == {"a", "b"}

NoStrings == [has |-> FALSE, list |-> <<>>]
StringReports ==
    {NoStrings} \cup [has : {TRUE}, list : SeqsUpTo(FoundStrings, MaxStrings)]

StringChildren == [categoryData : StringReports, stringData : StringReports]

RECURSIVE categoryStringsOf(_)
\* the reduce that collects the children's category strings
categoryStringsOf(children) ==
    IF children = <<>> THEN <<>>
    ELSE LET last == children[Len(children)]
             prev == categoryStringsOf(SubSeq(children, 1, Len(children) - 1))
         IN  IF last.categoryData.has THEN prev \o last.categoryData.list ELSE prev

RECURSIVE dataStringsOf(_)
\* the reduce that collects the children's data strings
dataStringsOf(children) ==
    IF children = <<>> THEN <<>>
    ELSE LET last == children[Len(children)]
             prev == dataStringsOf(SubSeq(children, 1, Len(children) - 1))
         IN  IF last.stringData.has THEN prev \o last.stringData.list ELSE prev

RECURSIVE uniq(_)
\* lodash uniq: the first occurrence of each value, in order
uniq(xs) ==
    IF xs = <<>> THEN <<>>
    ELSE LET init == uniq(SubSeq(xs, 1, Len(xs) - 1))
             last == xs[Len(xs)]
         IN  IF last \in Range(init) THEN init ELSE Append(init, last)

collectStringsDataFirst(args) ==
    uniq(args.tickStrings \o dataStringsOf(args.children)
         \o categoryStringsOf(args.children))

\* uniq([...tickStrings, ...categoryStrings, ...dataStrings])
collectStrings(args) ==
    uniq(args.tickStrings \o categoryStringsOf(args.children)
         \o dataStringsOf(args.children))

\* memo[key] = code on a JavaScript object: a new key goes last
setKey(memo, key, code) ==
    IF \E k \in DOMAIN memo : memo[k].key = key
    THEN [k \in DOMAIN memo |->
            IF memo[k].key = key THEN [key |-> key, code |-> code] ELSE memo[k]]
    ELSE Append(memo, [key |-> key, code |-> code])

RECURSIVE assignCodes(_, _)
\* the reduce over allStrings up to position n: memo[string] = index + 1
assignCodes(strings, n) ==
    IF n = 0 THEN <<>>
    ELSE setKey(assignCodes(strings, n - 1), strings[n], (n - 1) + 1)

Null == [isNull |-> TRUE, entries |-> <<>>]
StringMapOf(entries) == [isNull |-> FALSE, entries |-> entries]

InitStrings ==
    /\ pc = "call"
    /\ stringArgs \in [tickStrings : SeqsUpTo(FoundStrings, MaxStrings),
                       children : SeqsUpTo(StringChildren, MaxStringChildren)]
    /\ allStrings = <<>>
    /\ stringMap = Null
    /\ IdleChildren /\ IdleCategories /\ IdleDomain /\ IdleTicks /\ IdleOffset

\* the three collections and uniq
CollectStrings ==
    /\ pc = "call"
    /\ allStrings' = collectStrings(stringArgs)
    /\ pc' = "collected"
    /\ UNCHANGED <<stringArgs, stringMap>>
    /\ UNCHANGED <<childVars, categoryVars, domainVars, tickVars, offsetVars>>

\* return allStrings.length === 0 ? null : allStrings.reduce(...)
ReturnStringMap ==
    /\ pc = "collected"
    /\ stringMap' = IF Len(allStrings) = 0 THEN Null
                    ELSE StringMapOf(assignCodes(allStrings, Len(allStrings)))
    /\ pc' = "done"
    /\ UNCHANGED <<stringArgs, allStrings>>
    /\ UNCHANGED <<childVars, categoryVars, domainVars, tickVars, offsetVars>>

NextStrings ==
    \/ CollectStrings
    \/ ReturnStringMap

SpecStrings == InitStrings /\ [][NextStrings]_vars

----------------------------------------------------------------------------
(* getTicksFromAxis, getTicksFromData, getTicks and getTickFormat.  A tick *)
(* or category value is a number, a string or undefined.  calculatedProps  *)
(* carries the string map createStringMap built for the axis (null or an   *)
(* object with the codes 1..N), the categories of the axis (undefined or   *)
(* an array) and the scale, whose tickFormat() answers a formatter or      *)
(* nothing.                                                                *)

\* the longest tickValues and categories arrays
MaxTicks == 2

Num(n) == [t |-> "number", n |-> n, s |-> ""]
Str(s) == [t |-> "string", n |-> 0, s |-> s]
Undef == [t |-> "undefined", n |-> 0, s |-> ""]

NotDeclared == [declared |-> FALSE, vals |-> <<>>]
Declared(vals) == [declared |-> TRUE, vals |-> vals]

TickValueProps ==
    {NotDeclared}
    \cup {Declared(v) : v \in SeqsUpTo({Num(1), Num(7), Str("a"), Str("c")}, MaxTicks)}

CategoryArrays ==
    {NotDeclared}
    \cup {Declared(v) : v \in SeqsUpTo({Num(2), Str("a"), Str("b")}, MaxTicks)}

\* the string maps createStringMap can return over Strings
StringMaps ==
    {Null} \cup
    {StringMapOf(assignCodes(names, Len(names))) :
        names \in {s \in SeqsUpTo(Strings, Cardinality(Strings)) :
                      /\ s # <<>>
                      /\ \A k, m \in DOMAIN s : k # m => s[k] # s[m]}}

\* Collection.containsStrings
containsStrings(vals) == \E k \in DOMAIN vals : vals[k].t = "string"

\* Collection.containsOnlyStrings
containsOnlyStrings(vals) == \A k \in DOMAIN vals : vals[k].t = "string"

\* stringMap[tick] on a string map that is not null
lookup(map, tick) ==
    IF tick.t = "string" /\ \E k \in DOMAIN map.entries : map.entries[k].key = tick.s
    THEN Num((CHOOSE e \in Range(map.entries) : e.key = tick.s).code)
    ELSE Undef

\* lodash values: the values in the order of the keys
values(map) == [k \in DOMAIN map.entries |-> map.entries[k].code]

\* an array of numbers as an array of tick values
numbers(xs) == [k \in DOMAIN xs |-> Num(xs[k])]

\* what a helper returns: undefined, null, an array, or a TypeError thrown
ReturnsUndefined == [kind |-> "undefined", vals |-> <<>>]
ReturnsNull == [kind |-> "null", vals |-> <<>>]
ReturnsArray(vals) == [kind |-> "array", vals |-> vals]
ThrowsTypeError == [kind |-> "TypeError", vals |-> <<>>]

\* vals.map((tick) => stringMap[tick]): reading a key of null throws
mapThroughStringMap(vals, map) ==
    IF map.isNull /\ vals # <<>> THEN ThrowsTypeError
    ELSE ReturnsArray([k \in DOMAIN vals |-> lookup(map, vals[k])])

getTicksFromData(args) ==
    LET map == args.stringMap
        categoryArray == args.categories
        ticksFromCategories ==
            IF categoryArray.declared /\ containsOnlyStrings(categoryArray.vals)
            THEN mapThroughStringMap(categoryArray.vals, map)
            ELSE IF categoryArray.declared THEN ReturnsArray(categoryArray.vals)
            ELSE ReturnsUndefined
        ticksFromStringMap ==
            IF map.isNull THEN ReturnsNull ELSE ReturnsArray(numbers(values(map)))
    IN  IF ticksFromCategories.kind = "undefined" THEN ticksFromStringMap
        ELSE ticksFromCategories

getTicksFromAxis(args) ==
    LET tickValues == args.tickValues
        map == args.stringMap
    IN  IF ~tickValues.declared THEN ReturnsUndefined
        ELSE IF containsOnlyStrings(tickValues.vals) /\ ~map.isNull
        THEN mapThroughStringMap(tickValues.vals, map)
        ELSE ReturnsArray(tickValues.vals)

getTicksDataFirst(args) ==
    IF getTicksFromData(args).kind \in {"undefined", "null"}
    THEN getTicksFromAxis(args)
    ELSE getTicksFromData(args)

\* this.getTicksFromAxis(...args) || this.getTicksFromData(...args)
getTicks(args) ==
    IF getTicksFromAxis(args).kind = "undefined"
    THEN getTicksFromData(args)
    ELSE getTicksFromAxis(args)

RECURSIVE sortBy(_)
\* lodash sortBy(xs, (n) => n) on numbers: ascending
sortBy(xs) ==
    IF xs = <<>> THEN <<>>
    ELSE LET least == CHOOSE k \in DOMAIN xs : \A m \in DOMAIN xs : xs[k] <= xs[m]
         IN  <<xs[least]>> \o
             sortBy([k \in 1..(Len(xs) - 1) |-> IF k < least THEN xs[k] ELSE xs[k + 1]])

\* invert(stringMap)[tick]: the key of the last entry with that code
invertedAt(map, tick) ==
    IF \E k \in DOMAIN map.entries : map.entries[k].code = tick
    THEN LET last == CHOOSE k \in DOMAIN map.entries :
                        /\ map.entries[k].code = tick
                        /\ \A m \in DOMAIN map.entries :
                              map.entries[m].code = tick => m <= k
         IN  map.entries[last].key
    ELSE "undefined"

dataTicksNoLeadingPad(map) ==
    LET tickValueArray == sortBy(values(map))
        dataNames == [k \in DOMAIN tickValueArray |-> invertedAt(map, tickValueArray[k])]
    IN  dataNames \o <<"">>

\* ["", ...dataNames, ""]
dataTicksOf(map) ==
    LET tickValueArray == sortBy(values(map))
        dataNames == [k \in DOMAIN tickValueArray |-> invertedAt(map, tickValueArray[k])]
    IN  <<"">> \o dataNames \o <<"">>

\* the formatters getTickFormat returns
Identity == [kind |-> "identity", dataTicks |-> <<>>]
IndexInto(dataTicks) == [kind |-> "dataTicks", dataTicks |-> dataTicks]
ScaleTickFormat == [kind |-> "scale", dataTicks |-> <<>>]

getTickFormat(args) ==
    LET tickValues == args.tickValues
        map == args.stringMap
    IN  IF tickValues.declared /\ ~containsStrings(tickValues.vals) THEN Identity
        ELSE IF ~map.isNull THEN IndexInto(dataTicksOf(map))
        ELSE IF args.scaleHasTickFormat THEN ScaleTickFormat ELSE Identity

\* format(x) for identity and (x) => dataTicks[x], x a whole number
applyFormat(format, x) ==
    IF format.kind = "identity" THEN Num(x)
    ELSE IF x >= 0 /\ x < Len(format.dataTicks) THEN Str(format.dataTicks[x + 1])
    ELSE Undef

InitTicks ==
    /\ pc = "call"
    /\ tickArgs \in [tickValues : TickValueProps,
                     stringMap : StringMaps,
                     categories : CategoryArrays,
                     scaleHasTickFormat : BOOLEAN]
    /\ ticks = ReturnsUndefined
    /\ tickFormat = Identity
    /\ IdleChildren /\ IdleCategories /\ IdleDomain /\ IdleStrings /\ IdleOffset

GetTicks ==
    /\ pc = "call"
    /\ ticks' = getTicks(tickArgs)
    /\ pc' = "ticks"
    /\ UNCHANGED <<tickArgs, tickFormat>>
    /\ UNCHANGED <<childVars, categoryVars, domainVars, stringVars, offsetVars>>

GetTickFormat ==
    /\ pc = "ticks"
    /\ tickFormat' = getTickFormat(tickArgs)
    /\ pc' = "done"
    /\ UNCHANGED <<tickArgs, ticks>>
    /\ UNCHANGED <<childVars, categoryVars, domainVars, stringVars, offsetVars>>

NextTicks ==
    \/ GetTicks
    \/ GetTickFormat

SpecTicks == InitTicks /\ [][NextTicks]_vars

----------------------------------------------------------------------------
(* getAxisOffset.  props carries the width and height of the chart;        *)
(* calculatedProps carries the domains, the scales (drawn here from linear *)
(* maps v -> k * v + c) and the axis components, of which the code reads   *)
(* the orientation (through Axis.getOrientation) and offsetX / offsetY.    *)

OffsetDomains == {<<-2, 10>>, <<-5, -2>>, <<3, 8>>, <<0, 4>>, <<10, -2>>}

LinearScales == {[k |-> 10, c |-> 50], [k |-> -10, c |-> 250]}

NoOffset == [has |-> FALSE, n |-> 0]
OffsetProps == {NoOffset} \cup [has : {TRUE}, n : {0, 50}]

\* scale.x.call(null, v)
scaleAt(scale, v) == scale.k * v + scale.c

Abs(n) == IF n < 0 THEN -n ELSE n

\* Math.max(Math.min(...domain), 0)
originOf(dom) == MathMax(<<MathMin(dom), 0>>)

\* a || b on an offset that is undefined or a number: undefined and 0 are falsy
orElse(a, b) == IF a.has /\ a.n # 0 THEN a.n ELSE b

InitOffset ==
    /\ pc = "call"
    /\ offsetArgs \in [width : {400}, height : {300},
                       domain : [x : OffsetDomains, y : OffsetDomains],
                       scale : [x : LinearScales, y : LinearScales],
                       orientation : [x : {"bottom", "top"}, y : {"left", "right"}],
                       offsetX : OffsetProps, offsetY : OffsetProps]
    /\ origin = [x |-> 0, y |-> 0]
    /\ offset = [x |-> 0, y |-> 0]
    /\ IdleChildren /\ IdleCategories /\ IdleDomain /\ IdleStrings /\ IdleTicks

ComputeOrigin ==
    /\ pc = "call"
    /\ origin' = [x |-> originOf(offsetArgs.domain.x), y |-> originOf(offsetArgs.domain.y)]
    /\ pc' = "origin"
    /\ UNCHANGED <<offsetArgs, offset>>
    /\ UNCHANGED <<childVars, categoryVars, domainVars, stringVars, tickVars>>

ReturnOffset ==
    /\ pc = "origin"
    /\ LET axisOrientations == offsetArgs.orientation
           orientationOffset ==
               [x |-> IF axisOrientations.y = "left" THEN 0 ELSE offsetArgs.width,
                y |-> IF axisOrientations.x = "bottom" THEN offsetArgs.height ELSE 0]
           calculatedOffset ==
               [x |-> Abs(orientationOffset.x - scaleAt(offsetArgs.scale.x, origin.x)),
                y |-> Abs(orientationOffset.y - scaleAt(offsetArgs.scale.y, origin.y))]
       IN  offset' = [x |-> orElse(offsetArgs.offsetX, calculatedOffset.x),
                      y |-> orElse(offsetArgs.offsetY, calculatedOffset.y)]
    /\ pc' = "done"
    /\ UNCHANGED <<offsetArgs, origin>>
    /\ UNCHANGED <<childVars, categoryVars, domainVars, stringVars, tickVars>>

NextOffset ==
    \/ ComputeOrigin
    \/ ReturnOffset

SpecOffset == InitOffset /\ [][NextOffset]_vars

----------------------------------------------------------------------------
(* Properties of getChildComponents, checked under SpecChildren.           *)

\* the positions of the result that hold an axis for the key
AxisPositions(key) ==
    {k \in DOMAIN childComponents :
        childComponents[k].role = "axis" /\ childComponents[k].axis = key}

\* the declared children that are an axis for the key
DeclaredAxes(key) ==
    {props.children[k] : k \in {m \in DOMAIN props.children :
        /\ props.children[m].typed
        /\ props.children[m].role = "axis"
        /\ props.children[m].axis = key}}

BarPositions == {k \in DOMAIN childComponents : childComponents[k].role = "bar"}

\* C1: whatever the declared children (absent and empty lists included), the
\* list getChildComponents returns holds exactly one axis child for the
\* independent key and exactly one for the dependent key, a declared one when
\* some declared child is an axis for that key and the injected default
\* otherwise, and at most one child of role bar.
C1_OneAxisPerKeyAtMostOneBar ==
    pc = "done" =>
        /\ \A key \in AxisKeys :
              /\ Cardinality(AxisPositions(key)) = 1
              /\ \A k \in AxisPositions(key) :
                    IF DeclaredAxes(key) = {}
                    THEN childComponents[k] = defaultAxes[key]
                    ELSE childComponents[k] \in DeclaredAxes(key)
        /\ Cardinality(BarPositions) <= 1

\* two axes declared for the independent key, none for the dependent key, two bars
C1_Witness ==
    /\ pc = "done"
    /\ props.hasChildren
    /\ Cardinality(DeclaredAxes("independent")) = 2
    /\ DeclaredAxes("dependent") = {}
    /\ Cardinality({k \in DOMAIN props.children : props.children[k].role = "bar"}) = 2
    /\ Len(childComponents) = 3

\* the child at position i is the one the callback is about to see
Visiting == pc = "forEach" /\ i <= Len(props.children)

\* C9 (as amended): a declared child with no type is skipped entirely: the
\* callback leaves the result, the counters and the warnings as they are.  A
\* child whose type carries no role is not skipped: it is appended to the
\* result and counted under the key "undefined", and causes no warning.
C9_UntypedSkippedRolelessIncluded ==
    [][Visiting =>
         LET child == props.children[i]
         IN  /\ ~child.typed =>
                   UNCHANGED <<childComponents, counts, warnings>>
             /\ (child.typed /\ child.role = "none") =>
                   /\ childComponents' = Append(childComponents, child)
                   /\ warnings' = warnings
                   /\ counts'["undefined"].kind = "num"
                   /\ counts'["undefined"].n = counts["undefined"].n + 1
                   /\ \A key \in CountKeys \ {"undefined"} : counts'[key] = counts[key]]_vars

\* C9 (as stated): a child with no type, or with a type that carries no role,
\* is skipped entirely: not included, no counter changed, no warning.
C9_RolelessSkipped ==
    [][(Visiting /\ (~props.children[i].typed \/ props.children[i].role = "none"))
         => UNCHANGED <<childComponents, counts, warnings>>]_vars

\* an untyped child and a roleless child, each with children before and after
C9_Witness ==
    /\ pc = "done"
    /\ \E k, m \in 2..(Len(props.children) - 1) :
          /\ ~props.children[k].typed
          /\ props.children[m].typed /\ props.children[m].role = "none"
          /\ props.children[m] \in Range(childComponents)
          /\ props.children[k] \notin Range(childComponents)
          /\ props.children[1].typed
          /\ props.children[Len(props.children)].role = "bar"
    /\ warnings = <<>>

\* the rule of the claim: an earlier axis for the same key, or an earlier bar
RejectedByRule(children, k) ==
    /\ children[k].typed
    /\ \/ /\ children[k].role = "axis"
          /\ \E m \in 1..(k - 1) :
                children[m].role = "axis" /\ children[m].axis = children[k].axis
       \/ /\ children[k].role = "bar"
          /\ \E m \in 1..(k - 1) : children[m].role = "bar"

RECURSIVE KeptByRule(_, _)
\* the typed children up to position n that the rule does not reject, in order
KeptByRule(children, n) ==
    IF n = 0 THEN <<>>
    ELSE IF children[n].typed /\ ~RejectedByRule(children, n)
         THEN Append(KeptByRule(children, n - 1), children[n])
         ELSE KeptByRule(children, n - 1)

\* C10: a child is rejected exactly when an earlier child was an axis for the
\* same key or, for a bar, an earlier child was a bar; the result is the typed
\* children that are not rejected, in declaration order (those after a rejected
\* child too), followed only by default axes, and every rejected child
\* produces exactly one warning.
C10_FirstKeptRestWarned ==
    (pc = "done" /\ props.hasChildren) =>
        LET children == props.children
            kept == KeptByRule(children, Len(children))
            rejected == {k \in DOMAIN children : RejectedByRule(children, k)}
        IN  /\ Len(childComponents) >= Len(kept)
            /\ SubSeq(childComponents, 1, Len(kept)) = kept
            /\ \A k \in (Len(kept) + 1)..Len(childComponents) : childComponents[k].id = 0
            /\ Len(warnings) = Cardinality(rejected)

\* a rejected axis and a rejected bar, with a child accepted after each
C10_Witness ==
    /\ pc = "done"
    /\ props.hasChildren
    /\ Len(props.children) = 4
    /\ RejectedByRule(props.children, 2)
    /\ props.children[2].role = "axis"
    /\ props.children[3].role = "bar"
    /\ props.children[4].role = "line"
    /\ props.children[4] \in Range(childComponents)
    /\ Len(warnings) = 1

----------------------------------------------------------------------------
(* Property of getCategories, checked under SpecCategories.                *)

\* C2: whenever getCategories returns a list, no value appears in it more than
\* once, also when two children contribute the same position or a position is
\* both the mean of an inner array and listed directly.
C2_NoDuplicateCategories ==
    (pc = "done" /\ categoriesResult.defined) =>
        \A k, m \in DOMAIN categoriesResult.list :
            k # m => categoriesResult.list[k] # categoriesResult.list[m]

----------------------------------------------------------------------------
(* Property of getDomain, checked under SpecDomain.                        *)

\* no override for the requested axis: props.domain is undefined, or it is an
\* object without a pair for the axis
NoOverrideApplies ==
    \/ domainArgs.domain.kind = "undefined"
    \/ domainArgs.domain.kind = "object" /\ ~domainArgs.domain[domainArgs.axis].has

\* the endpoints of the children that report a domain
ReportedEndpoints ==
    {domainArgs.children[k].pair[e] :
        k \in {m \in DOMAIN domainArgs.children : domainArgs.children[m].has},
        e \in 1..2}

\* C3: when no override applies to the axis, the domain handed to padding is
\* [min(E), max(E)], E the endpoints of the children that report a domain, and
\* [0, 1] when no child reports one; so it covers every reported range.
C3_BaseDomainIsExtentOfReports ==
    (pc = "padDomain" /\ NoOverrideApplies) =>
        IF ReportedEndpoints = {} THEN domain = <<0, 1>>
        ELSE /\ Len(domain) = 2
             /\ domain[1] \in ReportedEndpoints
             /\ domain[2] \in ReportedEndpoints
             /\ \A e \in ReportedEndpoints : domain[1] <= e /\ e <= domain[2]

\* the children of the example: [2, 8] and [-1, 5] give [-1, 8]
C3_Witness ==
    /\ pc = "padDomain"
    /\ NoOverrideApplies
    /\ domainArgs.children = <<SomePair(<<2, 8>>), SomePair(<<-1, 5>>)>>
    /\ domain = <<-1, 8>>

----------------------------------------------------------------------------
(* Property of createStringMap, checked under SpecStrings.                 *)

RECURSIVE Flatten(_)
Flatten(lists) ==
    IF lists = <<>> THEN <<>> ELSE Head(lists) \o Flatten(Tail(lists))

\* the strings found: ticks, then categories, then data
StringsFound ==
    stringArgs.tickStrings
    \o Flatten([k \in DOMAIN stringArgs.children |->
                   stringArgs.children[k].categoryData.list])
    \o Flatten([k \in DOMAIN stringArgs.children |->
                   stringArgs.children[k].stringData.list])

FirstPosition(s) ==
    CHOOSE k \in DOMAIN StringsFound :
        StringsFound[k] = s /\ \A m \in 1..(k - 1) : StringsFound[m] # s

\* the 1-based position of s once the later duplicates are removed
PositionAmongDistinct(s) ==
    Cardinality({t \in Range(StringsFound) : FirstPosition(t) <= FirstPosition(s)})

\* C4: createStringMap returns null exactly when no string is found; otherwise
\* each string found is a key once, its code is its 1-based position in the
\* list of ticks, categories and data without the later duplicates, and the
\* codes are exactly 1..N, N the number of distinct strings.
C4_CodesAreFirstSeenPositions ==
    pc = "done" =>
        /\ stringMap.isNull <=> (StringsFound = <<>>)
        /\ ~stringMap.isNull =>
              LET entries == stringMap.entries
                  N == Cardinality(Range(StringsFound))
              IN  /\ Len(entries) = N
                  /\ {entries[k].key : k \in DOMAIN entries} = Range(StringsFound)
                  /\ {entries[k].code : k \in DOMAIN entries} = 1..N
                  /\ \A k \in DOMAIN entries :
                        entries[k].code = PositionAmongDistinct(entries[k].key)

\* a string found twice, and a category string that precedes a data string
C4_Witness ==
    /\ pc = "done"
    /\ ~stringMap.isNull
    /\ Len(StringsFound) = 3
    /\ Len(stringMap.entries) = 2
    /\ Len(stringArgs.children) = 1
    /\ stringArgs.children[1].categoryData.list # <<>>
    /\ stringArgs.children[1].stringData.list # <<>>
    /\ stringArgs.children[1].categoryData.list # stringArgs.children[1].stringData.list

----------------------------------------------------------------------------
(* Properties of getTicks and getTickFormat, checked under SpecTicks.      *)

AllStrings(vals) == \A k \in DOMAIN vals : vals[k].t = "string"
AllNumbers(vals) == \A k \in DOMAIN vals : vals[k].t = "number"

\* the code of a string in the string map, undefined when it is no key
CodeOf(val) ==
    IF \E e \in Range(tickArgs.stringMap.entries) : e.key = val.s
    THEN Num((CHOOSE e \in Range(tickArgs.stringMap.entries) : e.key = val.s).code)
    ELSE Undef

\* C5: whenever the axis child declares tickValues, getTicks returns what they
\* give (their codes when they are all strings and a string map exists, the
\* values themselves otherwise), whatever the categories and the values of
\* the string map; numeric tick values are returned unchanged.
C5_ExplicitTickValuesWin ==
    (pc \in {"ticks", "done"} /\ tickArgs.tickValues.declared) =>
        LET vals == tickArgs.tickValues.vals
        IN  /\ ticks.kind = "array"
            /\ Len(ticks.vals) = Len(vals)
            /\ IF AllStrings(vals) /\ ~tickArgs.stringMap.isNull
               THEN \A k \in DOMAIN vals : ticks.vals[k] = CodeOf(vals[k])
               ELSE ticks.vals = vals
            /\ AllNumbers(vals) => ticks.vals = vals

\* numeric tick values, a string map and other categories
C5_Witness ==
    /\ pc = "ticks"
    /\ tickArgs.tickValues = Declared(<<Num(7), Num(1)>>)
    /\ ~tickArgs.stringMap.isNull
    /\ tickArgs.categories = Declared(<<Str("a"), Str("b")>>)
    /\ ticks = ReturnsArray(<<Num(7), Num(1)>>)

\* the formatter is the inverse of the string map, with a blank at 0 and N + 1
InverseOfStringMap ==
    LET entries == tickArgs.stringMap.entries
    IN  /\ tickFormat.kind = "dataTicks"
        /\ \A k \in DOMAIN entries :
              applyFormat(tickFormat, entries[k].code) = Str(entries[k].key)
        /\ applyFormat(tickFormat, 0) = Str("")
        /\ applyFormat(tickFormat, Len(entries) + 1) = Str("")

\* the example: {a: 1, b: 2, c: 3}, no explicit ticks, no categories
ExampleTicks ==
    ( /\ tickArgs.stringMap = StringMapOf(assignCodes(<<"a", "b", "c">>, 3))
      /\ ~tickArgs.tickValues.declared
      /\ ~tickArgs.categories.declared )
    => ticks = ReturnsArray(<<Num(1), Num(2), Num(3)>>)

\* C6 (as amended): when a string map exists and the axis child declares no
\* tickValues, or a tickValues array that is not empty and holds only strings,
\* the formatter is the inverse of the string map with a blank at 0 and at
\* N + 1; with {a: 1, b: 2, c: 3}, no tickValues and no categories, getTicks
\* gives [1, 2, 3].
C6_FormatInvertsStringMap ==
    pc = "done" =>
        /\ ( /\ ~tickArgs.stringMap.isNull
             /\ \/ ~tickArgs.tickValues.declared
                \/ /\ tickArgs.tickValues.vals # <<>>
                   /\ AllStrings(tickArgs.tickValues.vals) )
           => InverseOfStringMap
        /\ ExampleTicks

\* C6 (as stated): when a string map exists and the axis child declares no
\* tick value that is not a string, the formatter is the inverse of the string
\* map with a blank at 0 and at N + 1.
C6_NoNonStringTickValues ==
    pc = "done" =>
        /\ ( /\ ~tickArgs.stringMap.isNull
             /\ AllStrings(tickArgs.tickValues.vals) )
           => InverseOfStringMap
        /\ ExampleTicks

C6_Witness ==
    /\ pc = "done"
    /\ tickArgs.stringMap = StringMapOf(assignCodes(<<"a", "b", "c">>, 3))
    /\ ~tickArgs.tickValues.declared
    /\ ~tickArgs.categories.declared
    /\ ticks = ReturnsArray(<<Num(1), Num(2), Num(3)>>)
    /\ tickFormat = IndexInto(<<"", "a", "b", "c", "">>)

----------------------------------------------------------------------------
(* Properties of getAxisOffset, checked under SpecOffset.                  *)

\* |orientation anchor - scale(origin)| for the two axes
ComputedOffset ==
    [x |-> Abs((IF offsetArgs.orientation.y = "left" THEN 0 ELSE offsetArgs.width)
               - scaleAt(offsetArgs.scale.x, origin.x)),
     y |-> Abs((IF offsetArgs.orientation.x = "bottom" THEN offsetArgs.height ELSE 0)
               - scaleAt(offsetArgs.scale.y, origin.y))]

\* C7: the offset returned for an axis is the override (offsetX, offsetY)
\* whenever one is present, 0 included, and the computed value
\* |anchor - scale(origin)| only when none is present.
C7_OverrideWheneverPresent ==
    pc = "done" =>
        /\ offset.x = IF offsetArgs.offsetX.has THEN offsetArgs.offsetX.n
                      ELSE ComputedOffset.x
        /\ offset.y = IF offsetArgs.offsetY.has THEN offsetArgs.offsetY.n
                      ELSE ComputedOffset.y

Lower(dom) == IF dom[1] <= dom[2] THEN dom[1] ELSE dom[2]
Upper(dom) == IF dom[1] <= dom[2] THEN dom[2] ELSE dom[1]

\* C8: the origin of an axis is 0 when 0 lies within its domain and the
\* minimum of the domain otherwise, domains entirely below zero included, so
\* the origin always lies inside the domain.
C8_OriginInsideDomain ==
    pc \in {"origin", "done"} =>
        \A a \in {"x", "y"} :
            LET dom == offsetArgs.domain[a]
            IN  /\ origin[a] = IF Lower(dom) <= 0 /\ 0 <= Upper(dom) THEN 0
                               ELSE Lower(dom)
                /\ Lower(dom) <= origin[a]
                /\ origin[a] <= Upper(dom)

====
